---- MODULE Spec2Model ----
(***************************************************************************)
(* Model of the SQL lexer of src/src/sql/parser/lexer.rs.                  *)
(*                                                                         *)
(* A Lexer owns a Peekable<Chars> over an immutable input.  The input is   *)
(* modelled as a sequence of one-character strings and the iterator as a   *)
(* 1-based cursor `pos` into it (pos = Len(input) + 1 when no character    *)
(* remains).  Every private method is an operator from (input, cursor) to  *)
(* the cursor it leaves and the value it returns; Iterator::next is the    *)
(* only operation a caller can invoke, and is the only action.             *)
(***************************************************************************)
EXTENDS Integers, Sequences, FiniteSets, TLC

VARIABLES
    input,   \* the text the Lexer was created from (never changes)
    pos,     \* the cursor of the Peekable<Chars>
    prev,    \* the cursor before the latest call of next()
    out,     \* the values the calls of next() have returned so far, in order
    trail,   \* the cursor each of those calls left, in order
    parts    \* how a composed input was put together (<< >> for the others)

vars == <<input, pos, prev, out, trail, parts>>

(***************************************************************************)
(* Bounds of the model.                                                    *)
(***************************************************************************)
MaxLen == 4        \* longest enumerated input
MaxLexemes == 2    \* most lexemes in a composed input
ExtraSteps == 2    \* results other than tokens the caller pulls before it stops

(***************************************************************************)
(* Characters and the classes the scanner tests.                           *)
(***************************************************************************)
LowerLetters ==
    << "a", "b", "c", "d", "e", "f", "g", "h", "i", "j", "k", "l", "m",
       "n", "o", "p", "q", "r", "s", "t", "u", "v", "w", "x", "y", "z" >>

UpperLetters ==
    << "A", "B", "C", "D", "E", "F", "G", "H", "I", "J", "K", "L", "M",
       "N", "O", "P", "Q", "R", "S", "T", "U", "V", "W", "X", "Y", "Z" >>

Range(s) == { s[i] : i \in 1..Len(s) }

Quote == {"'"}
Dot == {"."}
is_ascii_digit == {"0", "1", "2", "3", "4", "5", "6", "7", "8", "9"}
\* char::is_alphabetic letting the underscore start a name.
is_alphabetic_with_underscore ==
    Range(LowerLetters) \cup Range(UpperLetters) \cup {"_"}
is_alphabetic == Range(LowerLetters) \cup Range(UpperLetters)
is_alphanumeric == is_alphabetic \cup is_ascii_digit
\* The class of scan_ident's second closure without the underscore.
is_ident_rest_no_underscore == is_alphanumeric
\* The class of scan_ident's second closure, and the same with the blank let in.
is_ident_rest_with_blank == is_alphanumeric \cup {"_", " "}
is_ident_rest == is_alphanumeric \cup {"_"}
is_whitespace == {" ", "\t", "\n", "\r"}

to_uppercase_char(c) ==
    IF \E i \in 1..Len(LowerLetters) : LowerLetters[i] = c
    THEN UpperLetters[CHOOSE i \in 1..Len(LowerLetters) : LowerLetters[i] = c]
    ELSE c

to_lowercase_char(c) ==
    IF \E i \in 1..Len(UpperLetters) : UpperLetters[i] = c
    THEN LowerLetters[CHOOSE i \in 1..Len(UpperLetters) : UpperLetters[i] = c]
    ELSE c

to_uppercase(s) == [i \in 1..Len(s) |-> to_uppercase_char(s[i])]
to_lowercase(s) == [i \in 1..Len(s) |-> to_lowercase_char(s[i])]

(***************************************************************************)
(* Tokens and the values of next().  A token is [name, text]: text is the  *)
(* String a variant carries, << k >> for Keyword(k), << >> for the         *)
(* punctuation variants.                                                   *)
(***************************************************************************)
Token(name, text) == [name |-> name, text |-> text]
KeywordToken(k) == Token("Keyword", <<k>>)

\* Option<Result<Token>>: Some(Ok(token)), Some(Err(Error::Parse(msg))), None.
SomeOk(tok) == [tag |-> "Ok", name |-> tok.name, text |-> tok.text]
SomeErr(msg, arg) == [tag |-> "Err", name |-> msg, text |-> arg]
IterNone == [tag |-> "None", name |-> "", text |-> << >>]

UnexpectedCharacter == "[Lexer] Unexpected character"
UnexpectedEndOfString == "[Lexer] Unexpected end of string"

\* Keyword::from_str without to_uppercase: only the upper-case spellings match.
Keyword_from_str_case_sensitive(ident) ==
    CASE ident = <<"C", "R", "E", "A", "T", "E">> -> <<"Create">>
      [] ident = <<"T", "A", "B", "L", "E">> -> <<"Table">>
      [] ident = <<"T", "R", "U", "E">> -> <<"True">>
      [] ident = <<"F", "A", "L", "S", "E">> -> <<"False">>
      [] ident = <<"I", "N", "T">> -> <<"Int4">>
      [] ident = <<"I", "N", "T", "E", "G", "E", "R">> -> <<"Int4">>
      [] ident = <<"P", "R", "I", "M", "A", "R", "Y">> -> <<"Primary">>
      [] ident = <<"K", "E", "Y">> -> <<"Key">>
      [] OTHER -> << >>

(***************************************************************************)
(* Keyword::from_str: the match on ident.to_uppercase().  << >> is None,   *)
(* << k >> is Some(k).                                                     *)
(***************************************************************************)
Keyword_from_str(ident) ==
    LET u == to_uppercase(ident) IN
    CASE u = <<"C", "R", "E", "A", "T", "E">> -> <<"Create">>
      [] u = <<"T", "A", "B", "L", "E">> -> <<"Table">>
      [] u = <<"T", "R", "U", "E">> -> <<"True">>
      [] u = <<"F", "A", "L", "S", "E">> -> <<"False">>
      [] u = <<"I", "N", "T">> -> <<"Int4">>
      [] u = <<"I", "N", "T", "E", "G", "E", "R">> -> <<"Int4">>
      [] u = <<"P", "R", "I", "M", "A", "R", "Y">> -> <<"Primary">>
      [] u = <<"K", "E", "Y">> -> <<"Key">>
      [] OTHER -> << >>

(***************************************************************************)
(* The cursor primitives.  A returned Option<char> is << >> or << c >>.    *)
(***************************************************************************)
peek(s, p) == IF p <= Len(s) THEN <<s[p]>> ELSE << >>

\* self.iter.next(): a Chars iterator at its end stays at its end.
iter_next(s, p) == IF p <= Len(s) THEN p + 1 ELSE p

next_if(s, p, predicate) ==
    IF peek(s, p) # << >> /\ peek(s, p)[1] \in predicate
    THEN [pos |-> iter_next(s, p), val |-> peek(s, p)]
    ELSE [pos |-> p, val |-> << >>]

\* The String it accumulates; Some(value).filter(non-empty) makes << >> None.
RECURSIVE next_while(_, _, _)
next_while(s, p, predicate) ==
    LET r == next_if(s, p, predicate) IN
    IF r.val = << >>
    THEN [pos |-> p, val |-> << >>]
    ELSE LET rest == next_while(s, r.pos, predicate) IN
         [pos |-> rest.pos, val |-> r.val \o rest.val]

\* erase_whitespace with next_if in place of next_while: one character at most.
erase_whitespace_single(s, p) == next_if(s, p, is_whitespace).pos

erase_whitespace(s, p) == next_while(s, p, is_whitespace).pos

(***************************************************************************)
(* The scanners.  Each returns [pos, res]: res is the Result<Option<Token>>*)
(* of scan: [tag |-> "Ok", tok], [tag |-> "OkNone"] or [tag |-> "Err"].    *)
(***************************************************************************)
OkSome(p, tok) == [pos |-> p, tag |-> "Ok", tok |-> tok]
OkNone(p) == [pos |-> p, tag |-> "OkNone", tok |-> Token("", << >>)]
ErrParse(p, msg) == [pos |-> p, tag |-> "Err", tok |-> Token(msg, << >>)]

\* The loop of scan_string ending the literal at the end of the input.
RECURSIVE scan_string_loop_lenient(_, _, _)
scan_string_loop_lenient(s, p, val) ==
    IF p > Len(s) THEN OkSome(p, Token("String", val))
    ELSE IF s[p] = "'" THEN OkSome(p + 1, Token("String", val))
    ELSE scan_string_loop_lenient(s, p + 1, Append(val, s[p]))

\* The loop of scan_string, from cursor p with val accumulated so far.
RECURSIVE scan_string_loop(_, _, _)
scan_string_loop(s, p, val) ==
    IF p > Len(s) THEN ErrParse(iter_next(s, p), UnexpectedEndOfString)
    ELSE IF s[p] = "'" THEN OkSome(p + 1, Token("String", val))
    ELSE scan_string_loop(s, p + 1, Append(val, s[p]))

\* scan_string reading a doubled quote as an escaped quote.
RECURSIVE scan_string_escaping_loop(_, _, _)
scan_string_escaping_loop(s, p, val) ==
    IF p > Len(s) THEN ErrParse(p, UnexpectedEndOfString)
    ELSE IF s[p] = "'" /\ p + 1 <= Len(s) /\ s[p + 1] = "'"
         THEN scan_string_escaping_loop(s, p + 2, Append(val, "'"))
    ELSE IF s[p] = "'" THEN OkSome(p + 1, Token("String", val))
    ELSE scan_string_escaping_loop(s, p + 1, Append(val, s[p]))

scan_string_escaping(s, p) ==
    LET open == next_if(s, p, Quote) IN
    IF open.val = << >> THEN OkNone(open.pos)
    ELSE scan_string_escaping_loop(s, open.pos, << >>)

scan_string(s, p) ==
    LET open == next_if(s, p, Quote) IN
    IF open.val = << >> THEN OkNone(open.pos)
    ELSE scan_string_loop(s, open.pos, << >>)

\* scan_number taking any run of digits and dots.
scan_number_greedy(s, p) ==
    LET num == next_while(s, p, is_ascii_digit \cup Dot) IN
    IF num.val = << >> THEN OkNone(num.pos)
    ELSE OkSome(num.pos, Token("Number", num.val))

\* scan_number without the fraction part.
scan_number_integer_only(s, p) ==
    LET int == next_while(s, p, is_ascii_digit) IN
    IF int.val = << >> THEN OkNone(int.pos)
    ELSE OkSome(int.pos, Token("Number", int.val))

scan_number(s, p) ==
    LET int == next_while(s, p, is_ascii_digit) IN
    IF int.val = << >> THEN OkNone(int.pos)
    ELSE LET sep == next_if(s, int.pos, Dot) IN
         IF sep.val = << >> THEN OkSome(sep.pos, Token("Number", int.val))
         ELSE LET frac == next_while(s, sep.pos, is_ascii_digit) IN
              OkSome(frac.pos, Token("Number", int.val \o sep.val \o frac.val))

\* scan_ident reading the character that ends the run out of the iterator
\* (a loop on next() instead of next_if): that character is lost.
scan_ident_overrun(s, p) ==
    LET first == next_if(s, p, is_alphabetic) IN
    IF first.val = << >> THEN OkNone(first.pos)
    ELSE LET rest == next_while(s, first.pos, is_ident_rest)
             value == first.val \o rest.val
             kw == Keyword_from_str(value)
         IN OkSome(iter_next(s, rest.pos),
                   IF kw = << >> THEN Token("Ident", to_lowercase(value))
                   ELSE KeywordToken(kw[1]))

scan_ident(s, p) ==
    LET first == next_if(s, p, is_alphabetic) IN
    IF first.val = << >> THEN OkNone(first.pos)
    ELSE LET rest == next_while(s, first.pos, is_ident_rest)
             value == first.val \o rest.val
             kw == Keyword_from_str(value)
         IN OkSome(rest.pos,
                   IF kw = << >> THEN Token("Ident", to_lowercase(value))
                   ELSE KeywordToken(kw[1]))

\* scan_symbol's closure with the two parentheses exchanged.
symbol_token_swapped(c) ==
    CASE c = "*" -> <<Token("Asterisk", << >>)>>
      [] c = "(" -> <<Token("CloseParen", << >>)>>
      [] c = ")" -> <<Token("OpenParen", << >>)>>
      [] c = "," -> <<Token("Comma", << >>)>>
      [] c = ";" -> <<Token("Semicolon", << >>)>>
      [] c = "+" -> <<Token("Plus", << >>)>>
      [] c = "-" -> <<Token("Minus", << >>)>>
      [] c = "/" -> <<Token("Slash", << >>)>>
      [] OTHER -> << >>

\* The closure scan_symbol passes to next_if_token: << >> is None.
symbol_token(c) ==
    CASE c = "*" -> <<Token("Asterisk", << >>)>>
      [] c = "(" -> <<Token("OpenParen", << >>)>>
      [] c = ")" -> <<Token("CloseParen", << >>)>>
      [] c = "," -> <<Token("Comma", << >>)>>
      [] c = ";" -> <<Token("Semicolon", << >>)>>
      [] c = "+" -> <<Token("Plus", << >>)>>
      [] c = "-" -> <<Token("Minus", << >>)>>
      [] c = "/" -> <<Token("Slash", << >>)>>
      [] OTHER -> << >>

\* scan_symbol consuming the character whether or not it is a symbol.
scan_symbol_consuming(s, p) ==
    IF peek(s, p) = << >> \/ symbol_token(peek(s, p)[1]) = << >>
    THEN OkNone(iter_next(s, p))
    ELSE OkSome(iter_next(s, p), symbol_token(peek(s, p)[1])[1])

\* next_if_token returning the token and leaving the character in place.
next_if_token_peeking(s, p) ==
    IF peek(s, p) = << >> \/ symbol_token(peek(s, p)[1]) = << >>
    THEN OkNone(p)
    ELSE OkSome(p, symbol_token(peek(s, p)[1])[1])

\* next_if_token with scan_symbol's closure: the cursor moves on a match only.
next_if_token(s, p) ==
    IF peek(s, p) = << >> \/ symbol_token(peek(s, p)[1]) = << >>
    THEN OkNone(p)
    ELSE OkSome(iter_next(s, p), symbol_token(peek(s, p)[1])[1])

scan_symbol(s, p) == next_if_token(s, p)

scan(s, p) ==
    LET q == erase_whitespace(s, p)
        c == peek(s, q)
    IN  CASE c = << >> -> OkNone(q)
          [] c # << >> /\ c[1] = "'" -> scan_string(s, q)
          [] c # << >> /\ c[1] # "'" /\ c[1] \in is_ascii_digit -> scan_number(s, q)
          [] c # << >> /\ c[1] # "'" /\ c[1] \notin is_ascii_digit
               /\ c[1] \in is_alphabetic -> scan_ident(s, q)
          [] OTHER -> scan_symbol(s, q)

\* Iterator::next starting over from the first character once it has
\* signalled the end.
Lexer_next_restarting(s, p) ==
    LET r == scan(s, p) IN
    CASE r.tag = "Ok" -> [pos |-> r.pos, item |-> SomeOk(r.tok)]
      [] r.tag = "OkNone" ->
            IF peek(s, r.pos) = << >> THEN [pos |-> 1, item |-> IterNone]
            ELSE [pos |-> r.pos,
                  item |-> SomeErr(UnexpectedCharacter, peek(s, r.pos))]
      [] r.tag = "Err" -> [pos |-> r.pos, item |-> SomeErr(r.tok.name, << >>)]

\* Iterator::next reporting the end of the input as a failure too.
Lexer_next_failing_at_end(s, p) ==
    LET r == scan(s, p) IN
    CASE r.tag = "Ok" -> [pos |-> r.pos, item |-> SomeOk(r.tok)]
      [] r.tag = "OkNone" ->
            [pos |-> r.pos, item |-> SomeErr(UnexpectedCharacter, peek(s, r.pos))]
      [] r.tag = "Err" -> [pos |-> r.pos, item |-> SomeErr(r.tok.name, << >>)]

\* Iterator::next moving past the character it reports as unexpected.
Lexer_next_skipping(s, p) ==
    LET r == scan(s, p) IN
    CASE r.tag = "Ok" -> [pos |-> r.pos, item |-> SomeOk(r.tok)]
      [] r.tag = "OkNone" ->
            [pos |-> iter_next(s, r.pos),
             item |-> IF peek(s, r.pos) = << >> THEN IterNone
                      ELSE SomeErr(UnexpectedCharacter, peek(s, r.pos))]
      [] r.tag = "Err" -> [pos |-> r.pos, item |-> SomeErr(r.tok.name, << >>)]

\* Iterator::next: [pos, item].
Lexer_next(s, p) ==
    LET r == scan(s, p) IN
    CASE r.tag = "Ok" -> [pos |-> r.pos, item |-> SomeOk(r.tok)]
      [] r.tag = "OkNone" ->
            [pos |-> r.pos,
             item |-> IF peek(s, r.pos) = << >> THEN IterNone
                      ELSE SomeErr(UnexpectedCharacter, peek(s, r.pos))]
      [] r.tag = "Err" -> [pos |-> r.pos, item |-> SomeErr(r.tok.name, << >>)]

(***************************************************************************)
(* The inputs a Lexer is created from.                                     *)
(*                                                                         *)
(* Enumerated inputs: every text of at most MaxLen characters over Sigma,  *)
(* which holds letters of both cases that spell a keyword, a digit, the    *)
(* dot, the underscore, the quote, a whitespace character, a punctuation   *)
(* character and a character no rule accepts.                              *)
(***************************************************************************)
Sigma == {"k", "E", "y", "1", ".", "_", "'", " ", "+", "@"}

EnumeratedInputs == UNION { [1..n -> Sigma] : n \in 0..MaxLen }

(***************************************************************************)
(* Example inputs: the text of tests::test_lexer_create_table and the      *)
(* texts the specification gives as examples.                              *)
(***************************************************************************)
CreateTableSql ==
    << "c", "r", "e", "a", "t", "e", " ", "t", "a", "b", "l", "e", " ", "t",
           "b", "l", " ", "(", "a", " ", "i", "n", "t", " ", "p", "r", "i",
           "m", "a", "r", "y", " ", "k", "e", "y", " ", ",", " ", "b", " ",
           "i", "n", "t", "e", "g", "e", "r", ")", ";" >>

UpperCreate ==
    << "C", "R", "E", "A", "T", "E" >>

LowerCreate ==
    << "c", "r", "e", "a", "t", "e" >>

MixedCreate ==
    << "C", "r", "e", "a", "t", "e" >>

CreateSpacesTable ==
    << "c", "r", "e", "a", "t", "e", " ", " ", " ", "t", "a", "b", "l", "e" >>

Tbl1 ==
    << "t", "b", "l", "1" >>

UpperTrue ==
    << "T", "R", "U", "E" >>

MixedFalse ==
    << "F", "a", "l", "s", "e" >>

Int123 ==
    << "1", "2", "3" >>

Dec12_5 ==
    << "1", "2", ".", "5" >>

TrailingDot ==
    << "1", "2", "." >>

TwoDots ==
    << "1", ".", "2", ".", "3" >>

Hello ==
    << "'", "h", "e", "l", "l", "o", "'" >>

ItsQuoted ==
    << "'", "i", "t", "'", "'", "s", "'" >>

OpenAbc ==
    << "'", "a", "b", "c" >>

AtSign ==
    << "@" >>

IntUnderscore ==
    << "i", "n", "t", "_" >>

Integer1 ==
    << "i", "n", "t", "e", "g", "e", "r", "1" >>

Keys ==
    << "k", "e", "y", "s" >>

DigitThenLetters ==
    << "1", "a", "b", "c" >>

UnderscoreInside ==
    << "a", "_", "b" >>

UnderscoreFirst ==
    << "_", "a" >>

DotFirst ==
    << ".", "5" >>

AllSymbols ==
    << "*", "(", ")", ",", ";", "+", "-", "/" >>

FixedInputs ==
    { CreateTableSql,
      UpperCreate,
      LowerCreate,
      MixedCreate,
      CreateSpacesTable,
      Tbl1,
      UpperTrue,
      MixedFalse,
      Int123,
      Dec12_5,
      TrailingDot,
      TwoDots,
      Hello,
      ItsQuoted,
      OpenAbc,
      AtSign,
      IntUnderscore,
      Integer1,
      Keys,
      DigitThenLetters,
      UnderscoreInside,
      UnderscoreFirst,
      DotFirst,
      AllSymbols }

(***************************************************************************)
(* Composed inputs: a list of lexemes, each preceded by a separator of     *)
(* whitespace, and a trailing separator.  Each lexeme of the table states  *)
(* its text, its kind and the token it stands for.                         *)
(***************************************************************************)
Lexeme(text, kind, tok) == [text |-> text, kind |-> kind, tok |-> tok]

LexemeTable ==
    << Lexeme(<<"K", "e", "y">>, "word", KeywordToken("Key")),
       Lexeme(<<"k", "E", "_", "1">>, "word",
              Token("Ident", <<"k", "e", "_", "1">>)),
       Lexeme(<<"1", "2">>, "number", Token("Number", <<"1", "2">>)),
       Lexeme(<<"1", ".">>, "number", Token("Number", <<"1", ".">>)),
       Lexeme(<<"'", "K", " ", "@", "'">>, "string",
              Token("String", <<"K", " ", "@">>)),
       Lexeme(<<"(">>, "punct", Token("OpenParen", << >>)) >>

Separators == { << >>, <<"\n", " ">> }

Part == [sep : Separators, lex : 1..Len(LexemeTable)]

RECURSIVE Concat(_)
Concat(ps) ==
    IF ps = << >> THEN << >>
    ELSE Concat(SubSeq(ps, 1, Len(ps) - 1))
         \o ps[Len(ps)].sep \o LexemeTable[ps[Len(ps)].lex].text

\* Two adjacent lexemes with nothing between them read as one longer
\* lexeme when the scan of the first would run on into the second.
RunsOn(a, b) ==
    \/ a.kind = "word" /\ b.kind \in {"word", "number"}
    \/ a.kind = "number" /\ b.kind = "number"

\* Every lexeme of the composition is a maximal one.
Maximal(ps) ==
    \A i \in 2..Len(ps) :
        ps[i].sep = << >> =>
            ~RunsOn(LexemeTable[ps[i - 1].lex], LexemeTable[ps[i].lex])

Compositions ==
    { ps \in UNION { [1..n -> Part] : n \in 1..MaxLexemes } : Maximal(ps) }

(***************************************************************************)
(* Lexer::new leaves the cursor on the first character; nothing is         *)
(* scanned until next() is called.                                         *)
(***************************************************************************)
Lexer_new(text, ps) ==
    /\ input = text
    /\ parts = ps
    /\ pos = 1
    /\ prev = 1
    /\ out = << >>
    /\ trail = << >>

Init ==
    \/ \E text \in EnumeratedInputs \cup FixedInputs : Lexer_new(text, << >>)
    \/ \E ps \in Compositions, tail \in Separators :
           Lexer_new(Concat(ps) \o tail, ps)

(***************************************************************************)
(* One call of next() by the caller.  The caller may go on calling after   *)
(* an error or after the end; the model stops it after ExtraSteps results  *)
(* that are not tokens.                                                    *)
(***************************************************************************)
NonTokens(items) == Cardinality({ i \in 1..Len(items) : items[i].tag # "Ok" })

Step ==
    /\ NonTokens(out) < ExtraSteps
    /\ Len(out) < Len(input) + ExtraSteps
    /\ LET r == Lexer_next(input, pos) IN
           /\ pos' = r.pos
           /\ prev' = pos
           /\ out' = Append(out, r.item)
           /\ trail' = Append(trail, r.pos)
    /\ UNCHANGED <<input, parts>>

Next == Step

Spec == Init /\ [][Next]_vars

(***************************************************************************)
(* Vocabulary of the properties, stated on the input text itself.          *)
(***************************************************************************)
Last(items) == items[Len(items)]

IsUnexpected(r) == r.tag = "Err" /\ r.name = UnexpectedCharacter
IsUnterminated(r) == r.tag = "Err" /\ r.name = UnexpectedEndOfString

\* The caller has made every call the model lets it make.
CallsDone ==
    NonTokens(out) >= ExtraSteps \/ Len(out) >= Len(input) + ExtraSteps

\* The first index from p on that holds no character of cls (Len(s) + 1
\* when the run reaches the end of the text).
EndOfRun(s, p, cls) ==
    CHOOSE q \in p..(Len(s) + 1) :
        /\ \A j \in p..(q - 1) : s[j] \in cls
        /\ q = Len(s) + 1 \/ s[q] \notin cls

\* Where the latest call found its first character after the whitespace.
Start == EndOfRun(input, prev, is_whitespace)

Punctuation == {"*", "(", ")", ",", ";", "+", "-", "/"}
WordChars == is_alphabetic \cup is_ascii_digit \cup {"_"}

(***************************************************************************)
(* C1: every sequence of calls ends: a character that matches no rule is   *)
(* either consumed or ends the iteration, so two calls in a row never      *)
(* report an unexpected character with the cursor left where it was.       *)
(***************************************************************************)
C1_FailureNotRepeated ==
    ( /\ Len(out) >= 2
      /\ IsUnexpected(out[Len(out) - 1])
      /\ IsUnexpected(Last(out)) )
    => pos > prev

(***************************************************************************)
(* C2: an input composed of maximal lexemes with whitespace between them   *)
(* yields the token of each lexeme, in order, no error, and then the end;  *)
(* the text of test_lexer_create_table yields the thirteen tokens the test *)
(* asserts.                                                                *)
(***************************************************************************)
CreateTableTokens ==
    << KeywordToken("Create"), KeywordToken("Table"),
       Token("Ident", <<"t", "b", "l">>), Token("OpenParen", << >>),
       Token("Ident", <<"a">>), KeywordToken("Int4"),
       KeywordToken("Primary"), KeywordToken("Key"), Token("Comma", << >>),
       Token("Ident", <<"b">>), KeywordToken("Int4"),
       Token("CloseParen", << >>), Token("Semicolon", << >>) >>

\* The calls so far returned the tokens toks, in order, and then the end.
YieldsExactly(toks) ==
    /\ \A i \in 1..Len(out) :
           out[i] = IF i <= Len(toks) THEN SomeOk(toks[i]) ELSE IterNone
    /\ CallsDone => Len(out) > Len(toks)

C2_OneTokenPerLexeme ==
    /\ parts # << >> =>
           YieldsExactly([i \in 1..Len(parts) |-> LexemeTable[parts[i].lex].tok])
    /\ input = CreateTableSql => YieldsExactly(CreateTableTokens)

C2_Witness ==
    /\ Len(parts) >= 2
    /\ parts[1].sep # << >>
    /\ \E i \in 2..Len(parts) : parts[i].sep = << >>
    /\ Len(out) = Len(parts) + 1
    /\ Last(out) = IterNone

(***************************************************************************)
(* C3: a call reports an unexpected character exactly when, after the      *)
(* whitespace, a character remains that is no quote, digit, letter or      *)
(* punctuation character; the error carries that character and the cursor  *)
(* stays on it.                                                            *)
(***************************************************************************)
C3_UnexpectedCharacter ==
    out # << >> =>
        /\ IsUnexpected(Last(out)) <=>
               /\ Start <= Len(input)
               /\ input[Start] \notin
                      Quote \cup is_ascii_digit \cup is_alphabetic \cup Punctuation
        /\ IsUnexpected(Last(out)) =>
               /\ Last(out).text = <<input[Start]>>
               /\ pos = Start

C3_Witness ==
    /\ out # << >>
    /\ IsUnexpected(Last(out))
    /\ prev < pos
    /\ pos < Len(input)

(***************************************************************************)
(* C4: a quote with no closing quote after it makes the call fail with the *)
(* unterminated-string error, leaving the cursor at the end of the input,  *)
(* and the call after it signals the end.                                  *)
(***************************************************************************)
C4_UnterminatedString ==
    /\ out # << >> =>
           ( ( /\ Start <= Len(input)
               /\ input[Start] = "'"
               /\ \A j \in (Start + 1)..Len(input) : input[j] # "'" )
             => /\ Last(out) = SomeErr(UnexpectedEndOfString, << >>)
                /\ pos = Len(input) + 1 )
    /\ \A i \in 1..(Len(out) - 1) :
           IsUnterminated(out[i]) => out[i + 1] = IterNone

C4_Witness ==
    /\ input = OpenAbc
    /\ Len(out) = 2
    /\ IsUnterminated(out[1])
    /\ out[2] = IterNone

(***************************************************************************)
(* C5: after a call has returned an error, no later call returns a token.  *)
(***************************************************************************)
C5_NoTokenAfterError ==
    \A i \in 1..Len(out) : \A j \in (i + 1)..Len(out) :
        out[i].tag = "Err" => out[j].tag # "Ok"

\* An error was returned, another call was made, and text that would scan
\* as a token lies beyond the cursor.
C5_Witness ==
    /\ Len(out) >= 2
    /\ out[Len(out) - 1].tag = "Err"
    /\ \E j \in (pos + 1)..Len(input) : input[j] \in is_alphabetic

(***************************************************************************)
(* C6: no token holds a whitespace character.  As stated, for every token: *)
(***************************************************************************)
HasWhitespace(text) == \E j \in 1..Len(text) : text[j] \in is_whitespace

C6_NoWhitespaceInAnyToken ==
    \A i \in 1..Len(out) : out[i].tag = "Ok" => ~HasWhitespace(out[i].text)

(***************************************************************************)
(* C6, amended: no token other than a String holds a whitespace character; *)
(* a String holds the characters between its quotes, whitespace included.  *)
(***************************************************************************)
C6_NoWhitespaceOutsideStrings ==
    \A i \in 1..Len(out) :
        (out[i].tag = "Ok" /\ out[i].name # "String")
        => ~HasWhitespace(out[i].text)

\* A word or a number was scanned between two runs of whitespace.
C6_Witness ==
    /\ out # << >>
    /\ Last(out).tag = "Ok"
    /\ Last(out).name \in {"Ident", "Number"}
    /\ prev < Start
    /\ pos <= Len(input)
    /\ input[pos] \in is_whitespace

(***************************************************************************)
(* C7: whitespace is transparent: one more whitespace character before the *)
(* first lexeme, after the last one or beside whitespace that lies outside *)
(* a string literal, or another whitespace character in the place of such  *)
(* a one, changes nothing in what the calls return.                        *)
(***************************************************************************)
\* Index i of s (Len(s) + 1 included) lies inside a string literal: an odd
\* number of quotes precedes it.
InLiteral(s, i) == Cardinality({ j \in 1..(i - 1) : s[j] = "'" }) % 2 = 1

Insert(s, i, c) == SubSeq(s, 1, i - 1) \o <<c>> \o SubSeq(s, i, Len(s))

WhitespaceVariants(s) ==
    { Insert(s, i, c) :
        i \in { k \in 1..(Len(s) + 1) :
                  /\ ~InLiteral(s, k)
                  /\ \/ k = 1
                     \/ k = Len(s) + 1
                     \/ s[k] \in is_whitespace
                     \/ s[k - 1] \in is_whitespace },
        c \in is_whitespace }
    \cup
    { [s EXCEPT ![i] = c] :
        i \in { k \in 1..Len(s) : s[k] \in is_whitespace /\ ~InLiteral(s, k) },
        c \in is_whitespace }

\* What the first n calls of next() return on a fresh Lexer over s.
RECURSIVE Pull(_, _, _)
Pull(s, p, n) ==
    IF n = 0 THEN << >>
    ELSE LET r == Lexer_next(s, p) IN <<r.item>> \o Pull(s, r.pos, n - 1)

CreateOneSpaceTable ==
    << "c", "r", "e", "a", "t", "e", " ", "t", "a", "b", "l", "e" >>

C7_WhitespaceTransparent ==
    /\ CallsDone =>
           \A v \in WhitespaceVariants(input) : Pull(v, 1, Len(out)) = out
    /\ (input = CreateSpacesTable /\ CallsDone)
       => /\ out = Pull(CreateOneSpaceTable, 1, Len(out))
          /\ Len(out) > 2
          /\ out[1] = SomeOk(KeywordToken("Create"))
          /\ out[2] = SomeOk(KeywordToken("Table"))

\* Two tokens with whitespace between them, and a third result.
C7_Witness ==
    /\ CallsDone
    /\ Len(out) >= 3
    /\ out[1].tag = "Ok"
    /\ out[2].tag = "Ok"
    /\ \E i \in 2..(Len(input) - 1) :
           input[i] \in is_whitespace /\ ~InLiteral(input, i)

(***************************************************************************)
(* C8: at a letter, the call consumes the letter and the whole run of      *)
(* letters, digits and underscores after it; it returns Keyword(k) when    *)
(* the text is a spelling of k in any case, else Ident of the text in      *)
(* lower case.                                                             *)
(***************************************************************************)
KeywordSpellings ==
    { <<<<"c", "r", "e", "a", "t", "e">>, "Create">>,
      <<<<"t", "a", "b", "l", "e">>, "Table">>,
      <<<<"t", "r", "u", "e">>, "True">>,
      <<<<"f", "a", "l", "s", "e">>, "False">>,
      <<<<"p", "r", "i", "m", "a", "r", "y">>, "Primary">>,
      <<<<"k", "e", "y">>, "Key">>,
      <<<<"i", "n", "t">>, "Int4">>,
      <<<<"i", "n", "t", "e", "g", "e", "r">>, "Int4">> }

SameLetter(a, b) ==
    \/ a = b
    \/ \E i \in 1..Len(LowerLetters) :
           {a, b} = {LowerLetters[i], UpperLetters[i]}

EqualIgnoringCase(a, b) ==
    Len(a) = Len(b) /\ \A i \in 1..Len(a) : SameLetter(a[i], b[i])

InLowerCase(text) ==
    [i \in 1..Len(text) |->
        IF \E k \in 1..Len(UpperLetters) : UpperLetters[k] = text[i]
        THEN LowerLetters[CHOOSE k \in 1..Len(UpperLetters) :
                              UpperLetters[k] = text[i]]
        ELSE text[i]]

ExpectedWord(text) ==
    IF \E sp \in KeywordSpellings : EqualIgnoringCase(text, sp[1])
    THEN KeywordToken((CHOOSE sp \in KeywordSpellings :
                           EqualIgnoringCase(text, sp[1]))[2])
    ELSE Token("Ident", InLowerCase(text))

C8_IdentOrKeyword ==
    /\ ( /\ out # << >>
         /\ Start <= Len(input)
         /\ input[Start] \in is_alphabetic )
       => LET end == EndOfRun(input, Start + 1, WordChars) IN
          /\ pos = end
          /\ Last(out) = SomeOk(ExpectedWord(SubSeq(input, Start, end - 1)))
    /\ (input \in {UpperCreate, LowerCreate, MixedCreate} /\ out # << >>)
       => out[1] = SomeOk(KeywordToken("Create"))
    /\ (input = Tbl1 /\ out # << >>)
       => out[1] = SomeOk(Token("Ident", <<"t", "b", "l", "1">>))

\* A keyword in mixed case was recognised with more text after it.
C8_Witness ==
    /\ out # << >>
    /\ Last(out).tag = "Ok"
    /\ Last(out).name = "Keyword"
    /\ pos - Start = 3
    /\ \E j \in Start..(pos - 1) : input[j] \in Range(UpperLetters)
    /\ \E j \in Start..(pos - 1) : input[j] \in Range(LowerLetters)
    /\ pos <= Len(input)

(***************************************************************************)
(* C9: at a digit, the call consumes the run of digits, then one dot if it *)
(* follows at once, then the run of digits after the dot, and returns      *)
(* Number of exactly the text consumed; a second dot is left at the        *)
(* cursor.                                                                 *)
(***************************************************************************)
C9_Number ==
    /\ ( /\ out # << >>
         /\ Start <= Len(input)
         /\ input[Start] \in is_ascii_digit )
       => LET int == EndOfRun(input, Start, is_ascii_digit)
              end == IF int <= Len(input) /\ input[int] = "."
                     THEN EndOfRun(input, int + 1, is_ascii_digit)
                     ELSE int
          IN /\ pos = end
             /\ Last(out) = SomeOk(Token("Number", SubSeq(input, Start, end - 1)))
    /\ (input = Int123 /\ out # << >>)
       => out[1] = SomeOk(Token("Number", <<"1", "2", "3">>))
    /\ (input = Dec12_5 /\ out # << >>)
       => out[1] = SomeOk(Token("Number", <<"1", "2", ".", "5">>))
    /\ (input = TrailingDot /\ out # << >>)
       => out[1] = SomeOk(Token("Number", <<"1", "2", ".">>))
    /\ (input = TwoDots /\ Len(out) = 1)
       => /\ out[1] = SomeOk(Token("Number", <<"1", ".", "2">>))
          /\ pos = 4
          /\ input[pos] = "."

\* A number with a dot was scanned and a second dot is at the cursor.
C9_Witness ==
    /\ out # << >>
    /\ Last(out).tag = "Ok"
    /\ Last(out).name = "Number"
    /\ \E j \in 1..Len(Last(out).text) : Last(out).text[j] = "."
    /\ pos <= Len(input)
    /\ input[pos] = "."

(***************************************************************************)
(* C10: at a quote with a quote after it, the call returns String of the   *)
(* characters strictly between the quote and the first quote after it,     *)
(* unchanged, and leaves the cursor after that closing quote; a doubled    *)
(* quote is no escape.                                                     *)
(***************************************************************************)
C10_String ==
    /\ ( /\ out # << >>
         /\ Start <= Len(input)
         /\ input[Start] = "'"
         /\ \E j \in (Start + 1)..Len(input) : input[j] = "'" )
       => LET close == CHOOSE j \in (Start + 1)..Len(input) :
                           /\ input[j] = "'"
                           /\ \A k \in (Start + 1)..(j - 1) : input[k] # "'"
          IN /\ pos = close + 1
             /\ Last(out) =
                    SomeOk(Token("String", SubSeq(input, Start + 1, close - 1)))
    /\ (input = Hello /\ out # << >>)
       => out[1] = SomeOk(Token("String", <<"h", "e", "l", "l", "o">>))
    /\ (input = ItsQuoted /\ Len(out) >= 2)
       => /\ out[1] = SomeOk(Token("String", <<"i", "t">>))
          /\ out[2] = SomeOk(Token("String", <<"s">>))

\* Two string literals were scanned back to back, as in 'it''s'.
C10_Witness ==
    /\ Len(out) >= 2
    /\ out[Len(out) - 1].tag = "Ok"
    /\ out[Len(out) - 1].name = "String"
    /\ Last(out).tag = "Ok"
    /\ Last(out).name = "String"
    /\ input[Start] = "'"
    /\ input[Start - 1] = "'"
    /\ Last(out).text # << >>

(***************************************************************************)
(* C11: each of the eight punctuation characters at the cursor yields its  *)
(* own token, and the call consumes that one character and no more,        *)
(* whatever follows it.                                                    *)
(***************************************************************************)
PunctuationNames ==
    { <<"*", "Asterisk">>, <<"(", "OpenParen">>, <<")", "CloseParen">>,
      <<",", "Comma">>, <<";", "Semicolon">>, <<"+", "Plus">>,
      <<"-", "Minus">>, <<"/", "Slash">> }

C11_Punctuation ==
    /\ ( /\ out # << >>
         /\ Start <= Len(input)
         /\ input[Start] \in Punctuation )
       => /\ \E pn \in PunctuationNames :
                 /\ pn[1] = input[Start]
                 /\ Last(out) = SomeOk(Token(pn[2], << >>))
          /\ pos = Start + 1
    /\ (input = AllSymbols /\ Len(out) >= 8)
       => [i \in 1..8 |-> out[i].name] =
              << "Asterisk", "OpenParen", "CloseParen", "Comma", "Semicolon",
                 "Plus", "Minus", "Slash" >>

\* A punctuation character after whitespace, with a character that could
\* continue a lexeme right behind it.
C11_Witness ==
    /\ out # << >>
    /\ Last(out).tag = "Ok"
    /\ Last(out).name = "Plus"
    /\ prev < Start
    /\ pos <= Len(input)
    /\ input[pos] \in Punctuation \cup is_alphanumeric

(***************************************************************************)
(* C12: when nothing but whitespace is left, the call signals the end of   *)
(* the input: it returns neither a token nor an error; and the end is      *)
(* signalled in no other case.                                             *)
(***************************************************************************)
C12_CleanEnd ==
    out # << >> =>
        /\ Start = Len(input) + 1 => (Last(out) = IterNone /\ pos = Start)
        /\ Last(out) = IterNone => Start = Len(input) + 1

\* The end came after a token and a run of trailing whitespace.
C12_Witness ==
    /\ Len(out) >= 2
    /\ out[Len(out) - 1].tag = "Ok"
    /\ Last(out) = IterNone
    /\ prev < pos

(***************************************************************************)
(* C13: no overlap and no backtracking: the cursor never moves back; the   *)
(* stretches of the input that successive tokens were scanned from are     *)
(* non-empty, disjoint and in the order of the input; and when the calls   *)
(* reach the end with no error, every character of the input that is not   *)
(* whitespace between lexemes lies in the stretch of exactly one token.    *)
(***************************************************************************)
\* The cursor before call i, and where call i found its first character.
CursorBefore(i) == IF i = 1 THEN 1 ELSE trail[i - 1]
StartOf(i) == EndOfRun(input, CursorBefore(i), is_whitespace)

\* The calls that returned a token whose stretch of the input holds index k.
TokensOver(k) ==
    { i \in 1..Len(out) : out[i].tag = "Ok" /\ StartOf(i) <= k /\ k < trail[i] }

\* The token of call i is made of the whole stretch the call consumed: no
\* character of it went into the token unseen or was dropped.
MadeOfStretch(i) ==
    LET src == SubSeq(input, StartOf(i), trail[i] - 1)
        tok == out[i]
    IN  CASE tok.name = "String" -> src = <<"'">> \o tok.text \o <<"'">>
          [] tok.name = "Number" -> src = tok.text
          [] tok.name = "Ident" -> InLowerCase(src) = tok.text
          [] tok.name = "Keyword" ->
                \E sp \in KeywordSpellings :
                    sp[2] = tok.text[1] /\ EqualIgnoringCase(src, sp[1])
          [] OTHER ->
                \E pn \in PunctuationNames :
                    pn[2] = tok.name /\ src = <<pn[1]>>

C13_NoOverlapNoBacktrack ==
    /\ Len(trail) = Len(out)
    /\ \A i \in 1..Len(out) : out[i].tag = "Ok" => MadeOfStretch(i)
    /\ \A i \in 1..Len(out) : CursorBefore(i) <= trail[i]
    /\ \A i \in 1..Len(out) :
           out[i].tag = "Ok" =>
               /\ StartOf(i) < trail[i]
               /\ \A j \in (i + 1)..Len(out) :
                      out[j].tag = "Ok" => trail[i] <= StartOf(j)
    /\ \A k \in 1..Len(input) : Cardinality(TokensOver(k)) <= 1
    /\ ( /\ out # << >>
         /\ Last(out) = IterNone
         /\ \A i \in 1..Len(out) : out[i].tag # "Err" )
       => \A k \in 1..Len(input) :
              input[k] \notin is_whitespace => Cardinality(TokensOver(k)) = 1

\* The end was reached with no error after two tokens with nothing between
\* them and a third after whitespace.
C13_Witness ==
    /\ Len(out) >= 4
    /\ Last(out) = IterNone
    /\ \A i \in 1..3 : out[i].tag = "Ok"
    /\ trail[1] = StartOf(2)
    /\ trail[2] < StartOf(3)

(***************************************************************************)
(* C15: lexemes are maximal: after a call returns Ident or Keyword, the    *)
(* character at the cursor, if any, is no letter, digit or underscore;     *)
(* after it returns Number, that character is no digit, and is a dot only  *)
(* if the literal holds a dot already.  So int_, integer1 and keys are     *)
(* each one Ident, not a Keyword and another token.                        *)
(***************************************************************************)
HasDot(text) == \E j \in 1..Len(text) : text[j] = "."

C15_MaximalLexemes ==
    /\ ( /\ out # << >>
         /\ Last(out).tag = "Ok"
         /\ pos <= Len(input) )
       => /\ Last(out).name \in {"Ident", "Keyword"}
                => input[pos] \notin WordChars
          /\ Last(out).name = "Number"
                => /\ input[pos] \notin is_ascii_digit
                   /\ input[pos] = "." => HasDot(Last(out).text)
    /\ (input = IntUnderscore /\ out # << >>)
       => /\ out[1] = SomeOk(Token("Ident", <<"i", "n", "t", "_">>))
          /\ pos = Len(input) + 1
    /\ (input = Integer1 /\ out # << >>)
       => /\ out[1] =
                 SomeOk(Token("Ident", <<"i", "n", "t", "e", "g", "e", "r", "1">>))
          /\ pos = Len(input) + 1
    /\ (input = Keys /\ out # << >>)
       => /\ out[1] = SomeOk(Token("Ident", <<"k", "e", "y", "s">>))
          /\ pos = Len(input) + 1

\* A keyword spelling went on with an underscore and became one Ident.
C15_Witness ==
    /\ out # << >>
    /\ Last(out).tag = "Ok"
    /\ Last(out).name = "Ident"
    /\ Len(Last(out).text) = 4
    /\ Last(out).text[4] = "_"
    /\ \E sp \in KeywordSpellings :
           EqualIgnoringCase(SubSeq(Last(out).text, 1, 3), sp[1])
    /\ pos = Start + 4

(***************************************************************************)
(* C16: the end is absorbing: once a call has signalled the end of the     *)
(* input, every later call signals it too and leaves the cursor where it   *)
(* was.                                                                    *)
(***************************************************************************)
C16_EndIsAbsorbing ==
    \A i \in 1..Len(out) : \A j \in (i + 1)..Len(out) :
        out[i] = IterNone => (out[j] = IterNone /\ trail[j] = trail[i])

\* Tokens, the end, and one more call.
C16_Witness ==
    /\ Len(out) >= 3
    /\ out[1].tag = "Ok"
    /\ out[Len(out) - 1] = IterNone
    /\ Last(out) = IterNone
    /\ pos = Len(input) + 1

(***************************************************************************)
(* C17: every call that returns a token consumes at least one character    *)
(* that is not whitespace, so there are never more tokens than such        *)
(* characters; only a call that reports an unexpected character or the end *)
(* leaves the number of remaining such characters as it was.               *)
(***************************************************************************)
\* The characters from p on that are not whitespace.
Remaining(p) ==
    Cardinality({ j \in p..Len(input) : input[j] \notin is_whitespace })

C17_Progress ==
    /\ \A i \in 1..Len(out) :
           out[i].tag = "Ok" => Remaining(trail[i]) < Remaining(CursorBefore(i))
    /\ Cardinality({ i \in 1..Len(out) : out[i].tag = "Ok" }) <= Remaining(1)
    /\ \A i \in 1..Len(out) :
           Remaining(trail[i]) = Remaining(CursorBefore(i))
           => (IsUnexpected(out[i]) \/ out[i] = IterNone)

\* As many tokens as characters, and an unterminated literal that consumed
\* its quote: "+'" and the like.
C17_Witness ==
    /\ Len(out) >= 2
    /\ out[1].tag = "Ok"
    /\ trail[1] = 2
    /\ IsUnterminated(Last(out))
    /\ Remaining(pos) < Remaining(prev)

(***************************************************************************)
(* C18: the first character after the whitespace alone decides the rule:   *)
(* a quote gives a String or the unterminated-string error, a digit a      *)
(* Number, a letter an Ident or a Keyword, a punctuation character its     *)
(* token, anything else the unexpected-character error.  So 1abc is a      *)
(* Number and then an Ident, a_b is one Ident, and _a and .5 fail on their *)
(* first character.                                                        *)
(***************************************************************************)
Letters == Range(LowerLetters) \cup Range(UpperLetters)

C18_Dispatch ==
    /\ (out # << >> /\ Start <= Len(input))
       => LET c == input[Start]
              r == Last(out)
          IN  CASE c = "'" ->
                      (r.tag = "Ok" /\ r.name = "String") \/ IsUnterminated(r)
                [] c \in is_ascii_digit -> r.tag = "Ok" /\ r.name = "Number"
                [] c \in Letters ->
                      r.tag = "Ok" /\ r.name \in {"Ident", "Keyword"}
                [] c \in Punctuation ->
                      r.tag = "Ok" /\ \E pn \in PunctuationNames : pn[2] = r.name
                [] OTHER -> r = SomeErr(UnexpectedCharacter, <<c>>)
    /\ (input = DigitThenLetters /\ Len(out) >= 2)
       => /\ out[1] = SomeOk(Token("Number", <<"1">>))
          /\ out[2] = SomeOk(Token("Ident", <<"a", "b", "c">>))
    /\ (input = UnderscoreInside /\ out # << >>)
       => out[1] = SomeOk(Token("Ident", <<"a", "_", "b">>))
    /\ (input = UnderscoreFirst /\ out # << >>)
       => out[1] = SomeErr(UnexpectedCharacter, <<"_">>)
    /\ (input = DotFirst /\ out # << >>)
       => out[1] = SomeErr(UnexpectedCharacter, <<".">>)

\* A Number ended where letters begin, and the next call made an Ident of
\* them.
C18_Witness ==
    /\ Len(out) >= 2
    /\ out[Len(out) - 1].tag = "Ok"
    /\ out[Len(out) - 1].name = "Number"
    /\ Last(out).tag = "Ok"
    /\ Last(out).name = "Ident"
    /\ prev = Start

====
